---- MODULE Spec2Model ----
(***************************************************************************)
(* Model of tools/sense_studio/sense_studio.py: the request handlers that  *)
(* mutate a project's config (classes, per-class tag lists, settings) and  *)
(* the dataset directory layout, and the video-flip pipeline.              *)
(*                                                                         *)
(* File and directory names are Python strings; they are modelled as       *)
(* sequences of one-character strings so that str.split, str.replace,      *)
(* str.endswith and the `in` substring test are computed as Python does.   *)
(***************************************************************************)
EXTENDS Integers, Sequences, FiniteSets, TLC

VARIABLES
    config,     \* the project config document: classes, tags, settings
    dirs,       \* class directories on disk: set of <<base, class name>>
    files,      \* files on disk: set of [base, cls, name, content]
    last,       \* the most recent request, its parameters and its outcome
    requests,   \* the number of requests handled so far
    video,              \* FlipName specification: the source file name
    flipped_video_name, \* FlipName specification: the current computed name
    applied,            \* FlipName specification: times the function ran
    registry,   \* Registry specification: the projects overview and the disk
    race,       \* Race specification: two requests in flight on one config
    toggled     \* Settings specification: the most recent toggle request

vars == <<config, dirs, files, last, requests,
          video, flipped_video_name, applied, registry, race, toggled>>

----------------------------------------------------------------------------
(* Bounds of the model *)

\* assign_tag_to_class is explored while the class holds fewer tags than this
MaxTagListLen == 2
\* behaviours are explored up to this many requests
MaxRequests == 3
\* the k-th video transform of a flip run may fail, for k up to this
MaxFailAt == 1
\* file names of the FlipName specification are built from up to this many chunks
MaxChunks == 3

----------------------------------------------------------------------------
(* Python strings *)

VIDEO_EXT == <<".", "m", "p", "4">>
JSON_EXT == <<".", "j", "s", "o", "n">>
FLIPPED == <<"_", "f", "l", "i", "p", "p", "e", "d">>

\* s[i:].startswith(sub), i counted from 1
StartsWithAt(s, sub, i) ==
    /\ i + Len(sub) - 1 <= Len(s)
    /\ SubSeq(s, i, i + Len(sub) - 1) = sub

\* s.endswith(suf)
EndsWith(s, suf) ==
    /\ Len(suf) <= Len(s)
    /\ SubSeq(s, Len(s) - Len(suf) + 1, Len(s)) = suf

\* sub in s
Contains(s, sub) == \E i \in 1..Len(s) : StartsWithAt(s, sub, i)

\* s.replace(old, new): every non-overlapping occurrence, scanning from the left;
\* ''.join(s.split(old)) is s.replace(old, '')
RECURSIVE StrReplace(_, _, _)
StrReplace(s, old, new) ==
    IF s = <<>> THEN <<>>
    ELSE IF StartsWithAt(s, old, 1)
         THEN new \o StrReplace(SubSeq(s, Len(old) + 1, Len(s)), old, new)
         ELSE <<Head(s)>> \o StrReplace(Tail(s), old, new)

\* s.split(ch)[0]: the text before the first ch, the whole of s if there is none
RECURSIVE SplitFirst(_, _)
SplitFirst(s, ch) ==
    IF s = <<>> \/ Head(s) = ch THEN <<>>
    ELSE <<Head(s)>> \o SplitFirst(Tail(s), ch)

\* flip_videos: the name of the flipped copy of a source video
FlippedName(v) ==
    IF Contains(v, FLIPPED)
    THEN StrReplace(v, FLIPPED, <<>>)
    ELSE SplitFirst(v, ".") \o FLIPPED \o VIDEO_EXT

\* the annotation file name of a video: video.replace(VIDEO_EXT, '.json')
TagsFileName(v) == StrReplace(v, VIDEO_EXT, JSON_EXT)

----------------------------------------------------------------------------
(* The project and its directory layout *)

\* sense.SPLITS, in iteration order
SPLITS == <<"train", "valid">>
Splits == {SPLITS[i] : i \in 1..Len(SPLITS)}

\* class names a request may carry
ClassNames == {"left", "right"}

\* config['tags']: the tag vocabulary; a tag index refers to a position in it
Tags == <<"wave">>
\* tag indices a request may carry: the valid ones and one past the end
TagArgs == 0..Len(Tags)

\* a base directory that holds one sub-directory per class:
\* <project>/<kind>_<split>, or <project>/features_<split>/<model>/<layers>
BaseDir(kind, split) == <<kind, split, "">>
\* the <model>/<layers> directories found under each split's features directory
FeatureSubdirs == [train |-> {"effnet/0"}, valid |-> {}]

RECURSIVE SetToSeq(_)
SetToSeq(S) ==
    IF S = {} THEN <<>>
    ELSE LET x == CHOOSE y \in S : TRUE IN <<x>> \o SetToSeq(S \ {x})

\* edit_class: the base directories of one split, in the order they are visited
SplitDataDirs(split) ==
    <<BaseDir("videos", split), BaseDir("frames", split), BaseDir("tags", split)>>
    \o SetToSeq({<<"features", split, sub>> : sub \in FeatureSubdirs[split]})

RECURSIVE DataDirsFrom(_)
DataDirsFrom(i) ==
    IF i > Len(SPLITS) THEN <<>>
    ELSE SplitDataDirs(SPLITS[i]) \o DataDirsFrom(i + 1)

\* edit_class: data_dirs
DataDirs == DataDirsFrom(1)

\* file names and file contents
A_MP4 == <<"a">> \o VIDEO_EXT
AB_MP4 == <<"a", ".", "b">> \o VIDEO_EXT
AFF_MP4 == <<"a">> \o FLIPPED \o FLIPPED \o VIDEO_EXT
VideoContent == [file |-> <<>>, data |-> "video"]
File(base, cls, name, content) ==
    [base |-> base, cls |-> cls, name |-> name, content |-> content]

\* os.listdir of a class directory: the names of the files in it
ListDir(f, base, cls) == {x.name : x \in {y \in f : y.base = base /\ y.cls = cls}}

\* open(path, 'w') or a rendered output: the file is created or replaced
WriteFile(f, base, cls, name, content) ==
    {x \in f : ~(x.base = base /\ x.cls = cls /\ x.name = name)}
    \cup {File(base, cls, name, content)}

\* dict operations on config['classes']
Put(m, k, v) == [x \in DOMAIN m \cup {k} |-> IF x = k THEN v ELSE m[x]]
Del(m, k) == [x \in DOMAIN m \ {k} |-> m[x]]

\* the copy-tags lists a flip request may carry, per split
CopyChoices == [Splits -> {{}, {A_MP4}}]

NoCopy == [s \in Splits |-> {}]

\* the record of a request: what was asked (op, cls, cls2, tag, copy), what came
\* of it (status, whether write_project_config was called, the number of
\* transforms run and of annotation files written),
\* the class's tag list before an assign_tag_to_class, and in `after` the
\* preceding request's op when that one completed and had the same parameters
Outcome(op, cls, cls2, tag, copy, status, saved, renders, writes, before) ==
    [op |-> op, cls |-> cls, cls2 |-> cls2, tag |-> tag, copy |-> copy,
     status |-> status, saved |-> saved,
     renders |-> renders, writes |-> writes, before |-> before,
     after |-> IF last.status = "ok" /\ last.cls = cls /\ last.cls2 = cls2
                  /\ last.tag = tag /\ last.copy = copy
               THEN last.op ELSE "none"]

\* the record before any request
NoRequest ==
    [op |-> "none", cls |-> "", cls2 |-> "", tag |-> 0, copy |-> NoCopy,
     status |-> "ok", saved |-> FALSE, renders |-> 0, writes |-> 0, before |-> <<>>,
     after |-> "none"]

\* a project with one class, two training videos (both annotated), one
\* validation video, extracted frames and features
ProjectConfig ==
    [classes |-> [c \in {"left"} |-> <<0>>],
     tags |-> Tags,
     settings |-> [assisted_tagging |-> FALSE]]

ProjectDirs ==
    {<<BaseDir("videos", "train"), "left">>,
     <<BaseDir("videos", "valid"), "left">>,
     <<BaseDir("frames", "train"), "left">>,
     <<BaseDir("tags", "train"), "left">>,
     <<<<"features", "train", "effnet/0">>, "left">>}

ProjectFiles ==
    {File(BaseDir("videos", "train"), "left", A_MP4, VideoContent),
     File(BaseDir("videos", "train"), "left", AB_MP4, VideoContent),
     File(BaseDir("videos", "valid"), "left", AFF_MP4, VideoContent),
     File(BaseDir("tags", "train"), "left", TagsFileName(A_MP4),
          [file |-> A_MP4, data |-> "t1"]),
     File(BaseDir("tags", "train"), "left", TagsFileName(AB_MP4),
          [file |-> AB_MP4, data |-> "t2"]),
     File(BaseDir("frames", "train"), "left", <<"a">>,
          [file |-> <<>>, data |-> "frames"]),
     File(<<"features", "train", "effnet/0">>, "left", <<"a">>,
          [file |-> <<>>, data |-> "features"])}

InitProject ==
    /\ config = ProjectConfig
    /\ dirs = ProjectDirs
    /\ files = ProjectFiles
    /\ last = NoRequest
    /\ requests = 0

\* the projects overview, the two requests in flight and the toggle record
\* before any request that involves them
NoRegistry == [projects |-> <<>>, folders |-> {}, last |-> [op |-> "none", name |-> "", status |-> "ok"]]
NoRace == [request |-> <<>>, pc |-> <<>>, loaded |-> <<>>, seen |-> <<>>, status |-> <<>>, writers |-> <<>>]
NoToggle == [setting |-> "", setting_status |-> FALSE, trained |-> FALSE]

Init ==
    /\ InitProject
    /\ video = <<>>
    /\ flipped_video_name = <<>>
    /\ applied = 0
    /\ registry = NoRegistry
    /\ race = NoRace
    /\ toggled = NoToggle

FlipNameVars == <<video, flipped_video_name, applied>>

\* the variables of the other specifications, which no class, tag or flip
\* request touches
OtherVars == <<FlipNameVars, registry, race, toggled>>

----------------------------------------------------------------------------
(* Class requests *)

\* add_class
add_class(class_name) ==
    /\ config' = [config EXCEPT !.classes = Put(@, class_name, <<>>)]
    /\ dirs' = dirs \cup {<<BaseDir("videos", SPLITS[i]), class_name>> : i \in 1..Len(SPLITS)}
    /\ last' = Outcome("add_class", class_name, "", 0, NoCopy, "ok", TRUE, 0, 0, <<>>)
    /\ UNCHANGED <<files, OtherVars>>

\* os.rename(src, dst) of a class directory under one base: whether it succeeds
\* (as on POSIX: an existing destination directory is replaced when it is empty)
RenameSucceeds(d, f, base, src, dst) ==
    \/ src = dst
    \/ <<base, dst>> \notin d
    \/ ListDir(f, base, dst) = {}

\* os.rename(src, dst) of a class directory under one base: the directories after it
RenameDirs(d, base, src, dst) == (d \ {<<base, src>>}) \cup {<<base, dst>>}

\* os.rename(src, dst) of a class directory under one base: the files after it
RenameFiles(f, base, src, dst) ==
    {IF x.base = base /\ x.cls = src THEN [x EXCEPT !.cls = dst] ELSE x : x \in f}

\* the positions in data_dirs at which os.rename may be refused for a reason
\* outside the layout (the permissions of the directory): none (0), or the
\* training tags directory
RenameFaults == {0} \cup {i \in 1..Len(DataDirs) : DataDirs[i] = BaseDir("tags", "train")}

\* edit_class: the loop over data_dirs from position i on; an OSError ends it
\* (PermissionError is the OSError of a rename refused at position fault)
RECURSIVE RenameLoop(_, _, _, _, _, _)
RenameLoop(i, d, f, class_name, new_class_name, fault) ==
    IF i > Len(DataDirs) THEN [dirs |-> d, files |-> f, status |-> "ok"]
    ELSE LET base == DataDirs[i]
         IN  IF <<base, class_name>> \notin d
             THEN RenameLoop(i + 1, d, f, class_name, new_class_name, fault)
             ELSE IF i = fault
             THEN [dirs |-> d, files |-> f, status |-> "PermissionError"]
             ELSE IF RenameSucceeds(d, f, base, class_name, new_class_name)
                  THEN RenameLoop(i + 1,
                                  RenameDirs(d, base, class_name, new_class_name),
                                  RenameFiles(f, base, class_name, new_class_name),
                                  class_name, new_class_name, fault)
                  ELSE [dirs |-> d, files |-> f, status |-> "OSError"]

\* edit_class, were the directories renamed before the config is written
edit_class_dirs_first(class_name, new_class_name, fault) ==
    IF class_name \notin DOMAIN config.classes
    THEN /\ last' = Outcome("edit_class", class_name, new_class_name, 0, NoCopy,
                            "KeyError", FALSE, 0, 0, <<>>)
         /\ UNCHANGED <<config, dirs, files, OtherVars>>
    ELSE \E r \in {RenameLoop(1, dirs, files, class_name, new_class_name, fault)} :
             /\ config' = IF r.status # "ok" THEN config
                          ELSE [config EXCEPT !.classes =
                                   Put(Del(@, class_name), new_class_name, @[class_name])]
             /\ dirs' = r.dirs
             /\ files' = r.files
             /\ last' = Outcome("edit_class", class_name, new_class_name, 0, NoCopy,
                                r.status, r.status = "ok", 0, 0, <<>>)
             /\ UNCHANGED OtherVars

\* edit_class. fault is the position in data_dirs at which os.rename is refused
\* (0: nowhere).
edit_class(class_name, new_class_name, fault) ==
    IF class_name \notin DOMAIN config.classes
    THEN /\ last' = Outcome("edit_class", class_name, new_class_name, 0, NoCopy,
                            "KeyError", FALSE, 0, 0, <<>>)
         /\ UNCHANGED <<config, dirs, files, OtherVars>>
    ELSE \E r \in {RenameLoop(1, dirs, files, class_name, new_class_name, fault)} :
             /\ config' = [config EXCEPT !.classes =
                              Put(Del(@, class_name), new_class_name, @[class_name])]
             /\ dirs' = r.dirs
             /\ files' = r.files
             /\ last' = Outcome("edit_class", class_name, new_class_name, 0, NoCopy,
                                r.status, TRUE, 0, 0, <<>>)
             /\ UNCHANGED OtherVars

\* remove_class, were it to delete the class's directories as well
remove_class_rmtree(class_name) ==
    IF class_name \notin DOMAIN config.classes
    THEN /\ last' = Outcome("remove_class", class_name, "", 0, NoCopy, "KeyError", FALSE, 0, 0, <<>>)
         /\ UNCHANGED <<config, dirs, files, OtherVars>>
    ELSE /\ config' = [config EXCEPT !.classes = Del(@, class_name)]
         /\ dirs' = {x \in dirs : x[2] # class_name}
         /\ files' = {x \in files : x.cls # class_name}
         /\ last' = Outcome("remove_class", class_name, "", 0, NoCopy, "ok", TRUE, 0, 0, <<>>)
         /\ UNCHANGED OtherVars

\* remove_class
remove_class(class_name) ==
    IF class_name \notin DOMAIN config.classes
    THEN /\ last' = Outcome("remove_class", class_name, "", 0, NoCopy, "KeyError", FALSE, 0, 0, <<>>)
         /\ UNCHANGED <<config, dirs, files, OtherVars>>
    ELSE /\ config' = [config EXCEPT !.classes = Del(@, class_name)]
         /\ last' = Outcome("remove_class", class_name, "", 0, NoCopy, "ok", TRUE, 0, 0, <<>>)
         /\ UNCHANGED <<dirs, files, OtherVars>>

----------------------------------------------------------------------------
(* Tag requests *)

\* list.sort() on a sorted list with one more element x
RECURSIVE Insert(_, _)
Insert(s, x) ==
    IF s = <<>> THEN <<x>>
    ELSE IF x < Head(s) THEN <<x>> \o s
         ELSE <<Head(s)>> \o Insert(Tail(s), x)

\* list.sort()
RECURSIVE Sort(_)
Sort(s) == IF s = <<>> THEN <<>> ELSE Insert(Sort(SubSeq(s, 1, Len(s) - 1)), s[Len(s)])

\* x in list
InList(s, x) == \E i \in 1..Len(s) : s[i] = x

\* list.remove(x): the list without the first element equal to x
RECURSIVE Remove(_, _)
Remove(s, x) ==
    IF s = <<>> THEN <<>>
    ELSE IF Head(s) = x THEN Tail(s)
         ELSE <<Head(s)>> \o Remove(Tail(s), x)

\* class_tags after an assignment that skips an index already in the list
AssignedTagsOnce(class_tags, tag_index) ==
    IF InList(class_tags, tag_index) THEN class_tags
    ELSE Sort(Append(class_tags, tag_index))

\* assign_tag_to_class: class_tags after append and sort
AssignedTags(class_tags, tag_index) == Sort(Append(class_tags, tag_index))

\* assign_tag_to_class
assign_tag_to_class(class_name, tag_index) ==
    IF class_name \notin DOMAIN config.classes
    THEN /\ last' = Outcome("assign_tag_to_class", class_name, "", tag_index, NoCopy,
                            "KeyError", FALSE, 0, 0, <<>>)
         /\ UNCHANGED <<config, dirs, files, OtherVars>>
    ELSE /\ config' = [config EXCEPT !.classes[class_name] = AssignedTags(@, tag_index)]
         /\ last' = Outcome("assign_tag_to_class", class_name, "", tag_index, NoCopy,
                            "ok", TRUE, 0, 0, config.classes[class_name])
         /\ UNCHANGED <<dirs, files, OtherVars>>

\* remove_tag_from_class, were it to drop the index only when the list holds it
remove_tag_from_class_discard(class_name, tag_index) ==
    IF class_name \notin DOMAIN config.classes
    THEN /\ last' = Outcome("remove_tag_from_class", class_name, "", tag_index, NoCopy,
                            "KeyError", FALSE, 0, 0, <<>>)
         /\ UNCHANGED <<config, dirs, files, OtherVars>>
    ELSE /\ config' = [config EXCEPT !.classes[class_name] = Remove(@, tag_index)]
         /\ last' = Outcome("remove_tag_from_class", class_name, "", tag_index, NoCopy,
                            "ok", TRUE, 0, 0, <<>>)
         /\ UNCHANGED <<dirs, files, OtherVars>>

\* remove_tag_from_class
remove_tag_from_class(class_name, tag_index) ==
    IF class_name \notin DOMAIN config.classes
    THEN /\ last' = Outcome("remove_tag_from_class", class_name, "", tag_index, NoCopy,
                            "KeyError", FALSE, 0, 0, <<>>)
         /\ UNCHANGED <<config, dirs, files, OtherVars>>
    ELSE IF ~InList(config.classes[class_name], tag_index)
    THEN /\ last' = Outcome("remove_tag_from_class", class_name, "", tag_index, NoCopy,
                            "ValueError", FALSE, 0, 0, <<>>)
         /\ UNCHANGED <<config, dirs, files, OtherVars>>
    ELSE /\ config' = [config EXCEPT !.classes[class_name] = Remove(@, tag_index)]
         /\ last' = Outcome("remove_tag_from_class", class_name, "", tag_index, NoCopy,
                            "ok", TRUE, 0, 0, <<>>)
         /\ UNCHANGED <<dirs, files, OtherVars>>

----------------------------------------------------------------------------
(* The flip pipeline *)

\* [v for v in os.listdir(d) if v.endswith(VIDEO_EXT)]
VideoList(f, split, cls) ==
    {v \in ListDir(f, BaseDir("videos", split), cls) : EndsWith(v, VIDEO_EXT)}

\* list(reversed(s))
RECURSIVE Reverse(_)
Reverse(s) == IF s = <<>> THEN <<>> ELSE Append(Reverse(Tail(s)), Head(s))

\* os.listdir returns the names in an arbitrary order: the model explores one
\* order and its reverse, so that each of any two names comes first in one of them
Listing(S, reversed) == IF reversed THEN Reverse(SetToSeq(S)) ELSE SetToSeq(S)

\* the body of the loop over video_list once the flipped video is known to be
\* missing: st carries the disk, the number of transforms run, the number of
\* annotation files written and the status; the transform whose ordinal is
\* st.failAt raises
RenderVideo(st, split, v, original_class_name, counterpart_class_name, copy_video_tags) ==
    LET flipped == FlippedName(v)
        original_tags == {x \in st.files : /\ x.base = BaseDir("tags", split)
                                           /\ x.cls = original_class_name
                                           /\ x.name = TagsFileName(v)}
        rendered == WriteFile(st.files, BaseDir("videos", split), counterpart_class_name,
                              flipped, VideoContent)
    IN  IF st.renders + 1 = st.failAt
        THEN [st EXCEPT !.renders = @ + 1, !.status = "ffmpeg.Error"]
        ELSE IF v \in copy_video_tags[split] /\ original_tags # {}
        THEN [st EXCEPT !.renders = @ + 1, !.writes = @ + 1,
                        !.files = WriteFile(rendered, BaseDir("tags", split),
                                            counterpart_class_name, TagsFileName(flipped),
                                            [file |-> flipped,
                                             data |-> (CHOOSE x \in original_tags : TRUE).content.data])]
        ELSE [st EXCEPT !.renders = @ + 1, !.files = rendered]

\* flip_videos: one video of the loop, were every video rendered again
FlipVideoAlways(st, split, v, original_class_name, counterpart_class_name, copy_video_tags) ==
    IF st.status # "ok" THEN st
    ELSE RenderVideo(st, split, v, original_class_name, counterpart_class_name,
                     copy_video_tags)

\* flip_videos: one video of the loop
FlipVideo(st, split, v, original_class_name, counterpart_class_name, copy_video_tags) ==
    IF st.status # "ok"
       \/ FlippedName(v) \in VideoList(st.files, split, counterpart_class_name)
    THEN st
    ELSE RenderVideo(st, split, v, original_class_name, counterpart_class_name,
                     copy_video_tags)

\* flip_videos: the loop over video_list, from position i on
RECURSIVE FlipVideos(_, _, _, _, _, _, _)
FlipVideos(st, split, video_list, i, original_class_name, counterpart_class_name, copy_video_tags) ==
    IF i > Len(video_list) THEN st
    ELSE FlipVideos(FlipVideo(st, split, video_list[i], original_class_name,
                              counterpart_class_name, copy_video_tags),
                    split, video_list, i + 1, original_class_name,
                    counterpart_class_name, copy_video_tags)

\* flip_videos: one split: makedirs of the counterpart's directories, the
\* listing of the source videos (FileNotFoundError without the directory), the loop
FlipSplit(st, split, reversed, original_class_name, counterpart_class_name, copy_video_tags) ==
    LET made == st.dirs \cup {<<BaseDir("videos", split), counterpart_class_name>>,
                              <<BaseDir("tags", split), counterpart_class_name>>}
    IN  IF st.status # "ok" THEN st
        ELSE IF <<BaseDir("videos", split), original_class_name>> \notin made
        THEN [st EXCEPT !.dirs = made, !.status = "FileNotFoundError"]
        ELSE FlipVideos([st EXCEPT !.dirs = made], split,
                        Listing(VideoList(st.files, split, original_class_name), reversed), 1,
                        original_class_name, counterpart_class_name, copy_video_tags)

\* flip_videos: the loop over SPLITS, from position i on
RECURSIVE FlipSplits(_, _, _, _, _, _)
FlipSplits(st, i, reversed, original_class_name, counterpart_class_name, copy_video_tags) ==
    IF i > Len(SPLITS) THEN st
    ELSE FlipSplits(FlipSplit(st, SPLITS[i], reversed, original_class_name,
                              counterpart_class_name, copy_video_tags),
                    i + 1, reversed, original_class_name, counterpart_class_name,
                    copy_video_tags)

\* the tag list of a counterpart class, were it always created empty
CounterpartTagsEmpty(original_class_name, copy_video_tags) == <<>>

\* flip_videos: the tag list given to a counterpart class that is not in the config
CounterpartTags(original_class_name, copy_video_tags) ==
    IF \E s \in Splits : copy_video_tags[s] # {}
    THEN config.classes[original_class_name]
    ELSE <<>>

\* flip_videos. reversed selects the order in which os.listdir returns the
\* source videos; failAt is the ordinal of the transform that raises (0: none does).
flip_videos(original_class_name, counterpart_class_name, copy_video_tags, reversed, failAt) ==
    IF /\ counterpart_class_name \notin DOMAIN config.classes
       /\ \E s \in Splits : copy_video_tags[s] # {}
       /\ original_class_name \notin DOMAIN config.classes
    THEN /\ last' = Outcome("flip_videos", original_class_name, counterpart_class_name, 0,
                            copy_video_tags, "KeyError", FALSE, 0, 0, <<>>)
         /\ UNCHANGED <<config, dirs, files, OtherVars>>
    ELSE \E st \in {FlipSplits([dirs |-> dirs, files |-> files, renders |-> 0, writes |-> 0,
                                status |-> "ok", failAt |-> failAt],
                               1, reversed, original_class_name, counterpart_class_name,
                               copy_video_tags)} :
             /\ config' = IF counterpart_class_name \in DOMAIN config.classes THEN config
                          ELSE [config EXCEPT !.classes =
                                   Put(@, counterpart_class_name,
                                       CounterpartTags(original_class_name, copy_video_tags))]
             /\ dirs' = st.dirs
             /\ files' = st.files
             /\ last' = Outcome("flip_videos", original_class_name, counterpart_class_name, 0,
                                copy_video_tags, st.status,
                                counterpart_class_name \notin DOMAIN config.classes,
                                st.renders, st.writes, <<>>)
             /\ UNCHANGED OtherVars

----------------------------------------------------------------------------
(* The specification of the request handlers: any sequence of requests *)

\* one more request is handled
Handled == requests < MaxRequests /\ requests' = requests + 1

AddClass == \E c \in ClassNames : Handled /\ add_class(c)

\* in this specification the file system refuses no rename
EditClass == \E c \in ClassNames, n \in ClassNames : Handled /\ edit_class(c, n, 0)

RemoveClass == \E c \in ClassNames : Handled /\ remove_class(c)

AssignTag ==
    \E c \in ClassNames, t \in TagArgs :
       /\ Handled
       /\ c \in DOMAIN config.classes => Len(config.classes[c]) < MaxTagListLen
       /\ assign_tag_to_class(c, t)

RemoveTag == \E c \in ClassNames, t \in TagArgs : Handled /\ remove_tag_from_class(c, t)

\* the listing orders worth telling apart: one when no split lists two videos
ListingOrders(o) ==
    IF \E s \in Splits : Cardinality(VideoList(files, s, o)) > 1 THEN BOOLEAN ELSE {FALSE}

FlipVideosRequest ==
    \E o \in ClassNames, c \in ClassNames, copy \in CopyChoices :
       \E reversed \in ListingOrders(o), failAt \in 0..MaxFailAt :
          Handled /\ flip_videos(o, c, copy, reversed, failAt)

Next ==
    \/ AddClass
    \/ EditClass
    \/ RemoveClass
    \/ AssignTag
    \/ RemoveTag
    \/ FlipVideosRequest

Spec == Init /\ [][Next]_vars

----------------------------------------------------------------------------
(* The specification of class requests on a file system that may refuse a
   rename: classes are added, removed and renamed *)

EditClassRefused ==
    \E c \in ClassNames, n \in ClassNames, fault \in RenameFaults :
       Handled /\ edit_class(c, n, fault)

NextRename ==
    \/ AddClass
    \/ RemoveClass
    \/ EditClassRefused

SpecRename == Init /\ [][NextRename]_vars

----------------------------------------------------------------------------
(* The specification of flip naming: the flipped-name function applied to a
   file name, and again to its result *)

Chunks == {<<"a">>, <<"b">>, <<".">>, FLIPPED}

RECURSIVE Stems(_)
Stems(n) ==
    IF n = 0 THEN {<<>>}
    ELSE Stems(n - 1) \cup {s \o c : s \in Stems(n - 1), c \in Chunks}

\* the file names a videos directory may list: any stem, with the video extension
VideoNames == {s \o VIDEO_EXT : s \in Stems(MaxChunks)}

InitFlipName ==
    /\ InitProject
    /\ video \in VideoNames
    /\ flipped_video_name = video
    /\ applied = 0
    /\ registry = NoRegistry
    /\ race = NoRace
    /\ toggled = NoToggle

\* lines 436-439 of flip_videos, run on the current name
ApplyFlippedName ==
    /\ applied < 2
    /\ applied' = applied + 1
    /\ flipped_video_name' = FlippedName(flipped_video_name)
    /\ UNCHANGED <<config, dirs, files, last, requests, video, registry, race, toggled>>

NextFlipName == ApplyFlippedName

SpecFlipName == InitFlipName /\ [][NextFlipName]_vars

----------------------------------------------------------------------------
(* The specification of the projects overview: projects are created, moved to
   another directory and removed from the overview *)

\* project names and parent directories a request may carry
ProjectNames == {"p", "q"}
ParentDirs == {"/data", "/home"}

\* os.path.join(path, project_utils.get_folder_name_for_project(project_name))
ProjectPath(path, project_name) == <<path, project_name>>

RegistryOutcome(op, name, status) == [op |-> op, name |-> name, status |-> status]

\* project_utils.setup_new_project: the project is entered in the overview
\* under its name, with its path, and the overview is written
setup_new_project(project_name, path) == Put(registry.projects, project_name, path)

\* create_project: os.mkdir raises when the directory exists
create_project(project_name, path) ==
    IF ProjectPath(path, project_name) \in registry.folders
    THEN registry' = [registry EXCEPT
                         !.last = RegistryOutcome("create_project", project_name, "FileExistsError")]
    ELSE registry' = [projects |-> setup_new_project(project_name, ProjectPath(path, project_name)),
                      folders |-> registry.folders \cup {ProjectPath(path, project_name)},
                      last |-> RegistryOutcome("create_project", project_name, "ok")]

\* update_project: the project's entry is given the path of an existing directory
update_project(project_name, path) ==
    registry' = [registry EXCEPT
                    !.projects = setup_new_project(project_name, path),
                    !.last = RegistryOutcome("update_project", project_name, "ok")]

\* remove_project: del projects[name] raises KeyError for a name not in the overview
remove_project(name) ==
    IF name \notin DOMAIN registry.projects
    THEN registry' = [registry EXCEPT
                         !.last = RegistryOutcome("remove_project", name, "KeyError")]
    ELSE registry' = [registry EXCEPT
                         !.projects = Del(@, name),
                         !.last = RegistryOutcome("remove_project", name, "ok")]

RegistryFrame == UNCHANGED <<config, dirs, files, last, requests, FlipNameVars, race, toggled>>

CreateProject ==
    \E n \in ProjectNames, d \in ParentDirs : create_project(n, d) /\ RegistryFrame

UpdateProject ==
    \E n \in ProjectNames, d \in registry.folders : update_project(n, d) /\ RegistryFrame

RemoveProject == \E n \in ProjectNames : remove_project(n) /\ RegistryFrame

NextRegistry ==
    \/ CreateProject
    \/ UpdateProject
    \/ RemoveProject

SpecRegistry == Init /\ [][NextRegistry]_vars

----------------------------------------------------------------------------
(* The specification of two requests in flight: each handler loads the config,
   changes the loaded document in memory and writes the whole document back;
   the server runs the two handlers on two threads, so that the load and the
   write of one may fall on either side of the load and the write of the other *)

Threads == {1, 2}

\* the config the two requests start from: both classes, no tag assigned
RaceConfig ==
    [classes |-> [c \in ClassNames |-> <<>>],
     tags |-> Tags,
     settings |-> [assisted_tagging |-> FALSE]]

\* the requests in flight: an assign_tag_to_class or an add_class, on one of
\* the classes of the config or on a class that is not in it
RaceClassNames == ClassNames \cup {"up"}
RaceRequests ==
    {[op |-> "assign_tag_to_class", cls |-> c, tag |-> t] : c \in RaceClassNames, t \in TagArgs}
    \cup {[op |-> "add_class", cls |-> c, tag |-> 0] : c \in RaceClassNames}

\* the loaded document after the handler's change in memory:
\* config['classes'][class_name] = [] in add_class, append and sort in
\* assign_tag_to_class
Mutated(doc, request) ==
    IF request.op = "add_class"
    THEN [doc EXCEPT !.classes = Put(@, request.cls, <<>>)]
    ELSE [doc EXCEPT !.classes[request.cls] = AssignedTags(@, request.tag)]

\* the document a handler would write, had it loaded the config just before
\* writing it
WrittenDocumentFresh(t) == Mutated(config, race.request[t])

\* the document a handler writes: the one it loaded, with its change
WrittenDocument(t) == Mutated(race.loaded[t], race.request[t])

InitRace ==
    /\ config = RaceConfig
    /\ dirs = {<<BaseDir("videos", SPLITS[i]), c>> : i \in 1..Len(SPLITS), c \in ClassNames}
    /\ files = {}
    /\ last = NoRequest
    /\ requests = 0
    /\ video = <<>>
    /\ flipped_video_name = <<>>
    /\ applied = 0
    /\ registry = NoRegistry
    /\ toggled = NoToggle
    /\ \E r \in [Threads -> RaceRequests] :
          race = [request |-> r,
                  pc |-> [t \in Threads |-> "start"],
                  loaded |-> [t \in Threads |-> RaceConfig],
                  seen |-> [t \in Threads |-> 0],
                  status |-> [t \in Threads |-> "none"],
                  writers |-> <<>>]

RaceFrame == UNCHANGED <<files, last, requests, FlipNameVars, registry, toggled>>

\* project_utils.load_project_config(path) in thread t; seen records how many
\* writes of the config came before it
RaceLoad(t) ==
    /\ race.pc[t] = "start"
    /\ race' = [race EXCEPT !.pc[t] = "loaded",
                            !.loaded[t] = config,
                            !.seen[t] = Len(race.writers)]
    /\ UNCHANGED <<config, dirs>>
    /\ RaceFrame

\* the rest of the handler in thread t: the change in memory (KeyError in
\* assign_tag_to_class for a class the loaded document lacks),
\* write_project_config and, in add_class, the videos directories
RaceWrite(t) ==
    /\ race.pc[t] = "loaded"
    /\ IF /\ race.request[t].op = "assign_tag_to_class"
          /\ race.request[t].cls \notin DOMAIN race.loaded[t].classes
       THEN /\ race' = [race EXCEPT !.pc[t] = "done", !.status[t] = "KeyError"]
            /\ UNCHANGED <<config, dirs>>
       ELSE /\ config' = WrittenDocument(t)
            /\ dirs' = IF race.request[t].op = "add_class"
                       THEN dirs \cup {<<BaseDir("videos", SPLITS[i]), race.request[t].cls>> :
                                         i \in 1..Len(SPLITS)}
                       ELSE dirs
            /\ race' = [race EXCEPT !.pc[t] = "done", !.status[t] = "ok",
                                    !.writers = Append(@, t)]
    /\ RaceFrame

RaceLoadStep == \E t \in Threads : RaceLoad(t)

RaceWriteStep == \E t \in Threads : RaceWrite(t)

NextRace ==
    \/ RaceLoadStep
    \/ RaceWriteStep

SpecRace == InitRace /\ [][NextRace]_vars

----------------------------------------------------------------------------
(* The specification of the project settings: any sequence of toggle requests *)

\* the setting names a request may carry
SettingNames == {"assisted_tagging", "show_logreg", "temporal"}

\* config['settings'] of a project: any of the settings may be missing
SettingsMaps == UNION {[D -> BOOLEAN] : D \in SUBSET SettingNames}

\* project_utils.toggle_project_setting: the settings after the named one is
\* flipped, a missing one counting as false
ToggledSettings(settings, setting) ==
    Put(settings, setting,
        ~(IF setting \in DOMAIN settings THEN settings[setting] ELSE FALSE))

\* the route, were the model trained on every toggle of assisted_tagging
toggle_project_setting_any(setting) ==
    \E new_status \in {ToggledSettings(config.settings, setting)[setting]} :
       /\ config' = [config EXCEPT !.settings = ToggledSettings(@, setting)]
       /\ toggled' = [setting |-> setting,
                      setting_status |-> new_status,
                      trained |-> (setting = "assisted_tagging")]

\* the route toggle_project_setting: new_status is what the helper returns;
\* trained records whether train_logreg was called
toggle_project_setting(setting) ==
    \E new_status \in {ToggledSettings(config.settings, setting)[setting]} :
       /\ config' = [config EXCEPT !.settings = ToggledSettings(@, setting)]
       /\ toggled' = [setting |-> setting,
                      setting_status |-> new_status,
                      trained |-> (setting = "assisted_tagging" /\ new_status)]

InitSettings ==
    /\ \E m \in SettingsMaps :
          config = [classes |-> [c \in {"left"} |-> <<0>>], tags |-> Tags, settings |-> m]
    /\ dirs = {<<BaseDir("videos", SPLITS[i]), "left">> : i \in 1..Len(SPLITS)}
    /\ files = {}
    /\ last = NoRequest
    /\ requests = 0
    /\ video = <<>>
    /\ flipped_video_name = <<>>
    /\ applied = 0
    /\ registry = NoRegistry
    /\ race = NoRace
    /\ toggled = NoToggle

ToggleSetting ==
    \E setting \in SettingNames :
       /\ Handled
       /\ toggle_project_setting(setting)
       /\ UNCHANGED <<dirs, files, last, FlipNameVars, registry, race>>

NextSettings == ToggleSetting

SpecSettings == InitSettings /\ [][NextSettings]_vars

----------------------------------------------------------------------------
(* The specification of flip runs on a project that was flipped before: class
   right is the counterpart of class left, and the annotation of its flipped
   training video was edited since. In one initial state the flipped video is
   in place, in the other it was deleted from the videos directory so that it
   is rendered again *)

A_FLIPPED_MP4 == FlippedName(A_MP4)

\* the edited annotation of the flipped video
EditedTags ==
    File(BaseDir("tags", "train"), "right", TagsFileName(A_FLIPPED_MP4),
         [file |-> A_FLIPPED_MP4, data |-> "t3"])

InitFlip ==
    /\ config = [ProjectConfig EXCEPT !.classes = Put(@, "right", @["left"])]
    /\ dirs = ProjectDirs \cup {<<BaseDir(k, SPLITS[i]), "right">> :
                                  k \in {"videos", "tags"}, i \in 1..Len(SPLITS)}
    /\ \E deleted \in BOOLEAN :
          files = ProjectFiles \cup {EditedTags}
                  \cup (IF deleted THEN {}
                        ELSE {File(BaseDir("videos", "train"), "right",
                                   A_FLIPPED_MP4, VideoContent)})
    /\ last = NoRequest
    /\ requests = 0
    /\ video = <<>>
    /\ flipped_video_name = <<>>
    /\ applied = 0
    /\ registry = NoRegistry
    /\ race = NoRace
    /\ toggled = NoToggle

NextFlip == FlipVideosRequest

SpecFlip == InitFlip /\ [][NextFlip]_vars

----------------------------------------------------------------------------
(* Claims *)

\* the annotation file of video v of class cls in a split, if there is one
HasTagsFile(f, split, cls, v) ==
    \E x \in f : x.base = BaseDir("tags", split) /\ x.cls = cls /\ x.name = TagsFileName(v)

\* C1: assigning the same tag index to the same class twice in a row leaves the
\* class's tag list as it was after the first assignment.
C1_AssignTagIdempotent ==
    [][(/\ last'.op = "assign_tag_to_class"
        /\ last'.status = "ok"
        /\ last'.after = "assign_tag_to_class")
       => config'.classes[last'.cls] = config.classes[last'.cls]]_vars

\* C2: in every reachable state every class's tag list is strictly ascending.
C2_TagListsStrictlyAscending ==
    \A c \in DOMAIN config.classes :
       \A i \in 1..(Len(config.classes[c]) - 1) :
          config.classes[c][i] < config.classes[c][i + 1]

\* C3: renaming a class to the name of another class that is already a key of
\* classes fails and leaves the config and every directory and file as they were.
C3_RenameToExistingFails ==
    [][(/\ last'.op = "edit_class"
        /\ last'.cls \in DOMAIN config.classes
        /\ last'.cls2 \in DOMAIN config.classes
        /\ last'.cls2 # last'.cls)
       => (/\ last'.status # "ok"
           /\ config' = config
           /\ dirs' = dirs
           /\ files' = files)]_vars

\* C4: adding a class whose name is already a key of classes fails and leaves the
\* config, and so the class's tag list, as it was.
C4_AddExistingFails ==
    [][(last'.op = "add_class" /\ last'.cls \in DOMAIN config.classes)
       => (last'.status # "ok" /\ config' = config)]_vars

\* C5: renaming a class of the config to a name that is not a key of classes
\* removes the old key, maps the new name to the class's tag list, and leaves no
\* directory of the old name under any base directory.
C5_RenameToFreshName ==
    [][(/\ last'.op = "edit_class"
        /\ last'.cls \in DOMAIN config.classes
        /\ last'.cls2 \notin DOMAIN config.classes)
       => (/\ last'.cls \notin DOMAIN config'.classes
           /\ last'.cls2 \in DOMAIN config'.classes
           /\ config'.classes[last'.cls2] = config.classes[last'.cls]
           /\ \A i \in 1..Len(DataDirs) : <<DataDirs[i], last'.cls>> \notin dirs')]_vars

\* C6: removing a tag index from a class right after assigning it to that class
\* succeeds and restores the config as it was before the assignment, whether
\* or not the class held the index already.
C6_UnassignRestores ==
    [][(/\ last.op = "assign_tag_to_class"
        /\ last.status = "ok"
        /\ last'.op = "remove_tag_from_class"
        /\ last'.cls = last.cls
        /\ last'.tag = last.tag)
       => (/\ last'.status = "ok"
           /\ config' = [config EXCEPT !.classes[last.cls] = last.before])]_vars

\* C6 witness: a tag index the class held already was assigned and then removed.
C6_Witness ==
    /\ last.op = "remove_tag_from_class"
    /\ last.after = "assign_tag_to_class"
    /\ last.status = "ok"
    /\ InList(config.classes[last.cls], last.tag)

\* C7 as stated: a flip run that repeats the run before it (same source class,
\* counterpart class and copy-tags lists), that run having completed, runs no
\* transform, writes no file and leaves the config and the disk as they were.
C7_FlipIdempotent ==
    [][(last'.op = "flip_videos" /\ last'.after = "flip_videos")
       => (/\ last'.status = "ok"
           /\ last'.renders = 0
           /\ last'.writes = 0
           /\ config' = config
           /\ dirs' = dirs
           /\ files' = files)]_vars

\* C7 amended: the same, for a counterpart class that is not the source class.
C7_FlipIdempotentOtherClass ==
    [][(/\ last'.op = "flip_videos"
        /\ last'.after = "flip_videos"
        /\ last'.cls # last'.cls2)
       => (/\ last'.status = "ok"
           /\ last'.renders = 0
           /\ last'.writes = 0
           /\ config' = config
           /\ dirs' = dirs
           /\ files' = files)]_vars

\* C7 witness: a repeated run into another class that holds flipped videos and a
\* copied annotation file.
C7_Witness ==
    /\ last.op = "flip_videos"
    /\ last.after = "flip_videos"
    /\ last.status = "ok"
    /\ last.cls # last.cls2
    /\ VideoList(files, "train", last.cls2) # {}
    /\ ListDir(files, BaseDir("tags", "train"), last.cls2) # {}

\* C8: for a video file name without the _flipped marker, the flipped name of
\* its flipped name is the file name itself.
C8_FlipNamingSelfInverse ==
    (applied = 2 /\ ~Contains(video, FLIPPED)) => flipped_video_name = video

\* C9: after a flip run that completed, every source video named in its split's
\* copy-tags list and having an annotation file has, in the counterpart's tags
\* directory, an annotation file under the flipped name whose file field is the
\* flipped name.
C9_CopiedTagsPresent ==
    [][(last'.op = "flip_videos" /\ last'.status = "ok")
       => \A s \in Splits :
             \A v \in VideoList(files, s, last'.cls) \cap last'.copy[s] :
                HasTagsFile(files, s, last'.cls, v)
                => \E x \in files' :
                      /\ x.base = BaseDir("tags", s)
                      /\ x.cls = last'.cls2
                      /\ x.name = TagsFileName(FlippedName(v))
                      /\ x.content.file = FlippedName(v)]_vars

\* C10: remove_class of a class of the config deletes that class's entry and
\* nothing else of the config, and touches no directory or file; of a class
\* not in the config it fails and changes nothing.
C10_RemoveClassConfigOnly ==
    [][last'.op = "remove_class"
       => (/\ dirs' = dirs
           /\ files' = files
           /\ IF last'.cls \in DOMAIN config.classes
              THEN /\ last'.status = "ok"
                   /\ config' = [config EXCEPT !.classes =
                                    [c \in DOMAIN config.classes \ {last'.cls}
                                       |-> config.classes[c]]]
              ELSE /\ last'.status = "KeyError"
                   /\ config' = config)]_vars

\* C10 witness: a class was removed while another class stays in the config,
\* and the removed class's directories and files are still on disk.
C10_Witness ==
    /\ last.op = "remove_class"
    /\ last.status = "ok"
    /\ DOMAIN config.classes # {}
    /\ <<BaseDir("videos", "train"), last.cls>> \in dirs
    /\ ListDir(files, BaseDir("videos", "train"), last.cls) # {}

\* C11: in every reachable state every tag index in every class's tag list is a
\* valid index into the tag vocabulary: 0 <= index < len(tags).
C11_TagIndicesValid ==
    \A c \in DOMAIN config.classes :
       \A i \in 1..Len(config.classes[c]) :
          /\ 0 <= config.classes[c][i]
          /\ config.classes[c][i] < Len(config.tags)

\* C12: removing a project name that is not in the overview is a no-op that
\* reports no error: the request succeeds and the overview is unchanged.
C12_RemoveAbsentIsNoOp ==
    [][(/\ registry'.last.op = "remove_project"
        /\ registry'.last.name \notin DOMAIN registry.projects)
       => (/\ registry'.last.status = "ok"
           /\ registry'.projects = registry.projects)]_vars

\* C13: a lost update is reachable when the load and write steps of two config
\* changes interleave. Whenever both handlers loaded the config before either
\* wrote it, both report success and the final config is the initial one with
\* the later writer's change alone; C13_Witness is such a state for two requests
\* on different classes, where the earlier writer's change is missing.
C13_LostUpdate ==
    (/\ Len(race.writers) = 2
     /\ race.seen[race.writers[2]] = 0)
    => (/\ \A t \in Threads : race.status[t] = "ok"
        /\ config = Mutated(RaceConfig, race.request[race.writers[2]]))

C13_Witness ==
    /\ Len(race.writers) = 2
    /\ race.seen[race.writers[2]] = 0
    /\ \A t \in Threads : race.pc[t] = "done" /\ race.status[t] = "ok"
    /\ race.request[1].cls # race.request[2].cls
    /\ config # Mutated(Mutated(RaceConfig, race.request[race.writers[1]]),
                        race.request[race.writers[2]])
    /\ config.classes = Put(RaceConfig.classes, race.request[race.writers[2]].cls,
                            config.classes[race.request[race.writers[2]].cls])

\* C14: remove_tag_from_class fails when the class is not in the config or the
\* tag index is not in the class's tag list, assign_tag_to_class fails when the
\* class is not in the config; in each of these cases the config is not written
\* and the persisted config is unchanged.
C14_FailedTagRequestsWriteNothing ==
    [][(\/ /\ last'.op = "remove_tag_from_class"
           /\ \/ last'.cls \notin DOMAIN config.classes
              \/ ~InList(config.classes[last'.cls], last'.tag)
        \/ /\ last'.op = "assign_tag_to_class"
           /\ last'.cls \notin DOMAIN config.classes)
       => (/\ last'.status # "ok"
           /\ ~last'.saved
           /\ config' = config)]_vars

C14_Witness ==
    /\ last.op = "remove_tag_from_class"
    /\ last.cls \in DOMAIN config.classes
    /\ ~InList(config.classes[last.cls], last.tag)
    /\ last.status = "ValueError"
    /\ ~last.saved

\* C15: edit_class writes the config before it renames any directory and rolls
\* nothing back: when a rename fails at some base directory, the persisted
\* config holds the new name and not the old one, the base directories before
\* the failing one have the class's directory (and its files) under the new
\* name, and the failing one and those after it are as they were.
C15_RenameWritesConfigFirst ==
    [][(/\ last'.op = "edit_class"
        /\ last'.status \notin {"ok", "KeyError"}
        /\ last'.cls # last'.cls2)
       => (/\ last'.saved
           /\ last'.cls \notin DOMAIN config'.classes
           /\ last'.cls2 \in DOMAIN config'.classes
           /\ config'.classes[last'.cls2] = config.classes[last'.cls]
           /\ \E k \in 1..Len(DataDirs) :
                 /\ <<DataDirs[k], last'.cls>> \in dirs
                 /\ \A i \in 1..(k - 1) :
                       <<DataDirs[i], last'.cls>> \in dirs
                       => (/\ <<DataDirs[i], last'.cls>> \notin dirs'
                           /\ <<DataDirs[i], last'.cls2>> \in dirs'
                           /\ ListDir(files, DataDirs[i], last'.cls)
                                 \subseteq ListDir(files', DataDirs[i], last'.cls2))
                 /\ \A i \in k..Len(DataDirs) :
                       /\ {x \in dirs' : x[1] = DataDirs[i]} = {x \in dirs : x[1] = DataDirs[i]}
                       /\ {x \in files' : x.base = DataDirs[i]}
                             = {x \in files : x.base = DataDirs[i]})]_vars

\* C15 witness: a rename that failed at the training tags directory, after the
\* training videos directory was renamed.
C15_Witness ==
    /\ last.op = "edit_class"
    /\ last.status \notin {"ok", "KeyError"}
    /\ last.cls # last.cls2
    /\ last.cls2 \in DOMAIN config.classes
    /\ last.cls \notin DOMAIN config.classes
    /\ <<BaseDir("videos", "train"), last.cls>> \notin dirs
    /\ ListDir(files, BaseDir("videos", "train"), last.cls2) # {}
    /\ ListDir(files, BaseDir("tags", "train"), last.cls) # {}

\* C16: in flip_videos a counterpart class that is not a key of classes is added
\* once, before any split is processed (so also when the run fails later), with
\* the source class's tag list when the copy-tags list of some split is not
\* empty and with an empty list otherwise; when the counterpart class is a key
\* already, the config is not written and stays as it was.
C16_CounterpartAddedOnce ==
    [][(last'.op = "flip_videos" /\ last'.status # "KeyError")
       => IF last'.cls2 \notin DOMAIN config.classes
          THEN /\ last'.saved
               /\ config' = [config EXCEPT !.classes =
                                 Put(@, last'.cls2,
                                     IF \E s \in Splits : last'.copy[s] # {}
                                     THEN config.classes[last'.cls]
                                     ELSE <<>>)]
          ELSE /\ ~last'.saved
               /\ config' = config]_vars

\* C16 witness: a run that added the counterpart class with the source class's
\* tags and then failed in its first transform.
C16_Witness ==
    /\ last.op = "flip_videos"
    /\ last.saved
    /\ last.status = "ffmpeg.Error"
    /\ \E s \in Splits : last.copy[s] # {}
    /\ last.cls # last.cls2
    /\ last.cls \in DOMAIN config.classes
    /\ config.classes[last.cls] # <<>>
    /\ config.classes[last.cls2] = config.classes[last.cls]

\* C17: a toggle request calls the retraining exactly when the toggled setting
\* is assisted_tagging and the new value is true, and its response reports the
\* new value, which is the value now in the config.
C17_RetrainOnEnable ==
    [][/\ toggled'.trained
          = (toggled'.setting = "assisted_tagging" /\ toggled'.setting_status)
       /\ toggled'.setting \in DOMAIN config'.settings
       /\ toggled'.setting_status = config'.settings[toggled'.setting]]_vars

\* C17 witnesses: assisted_tagging was switched on and the model trained
C17_Witness ==
    /\ requests > 0
    /\ toggled.setting = "assisted_tagging"
    /\ toggled.setting_status
    /\ toggled.trained

\* C18: in every reachable state every class that is a key of classes has a
\* videos directory in every split, so that the listing of the class's videos
\* in project_details never fails.
C18_ClassesHaveVideosDirs ==
    \A c \in DOMAIN config.classes :
       \A s \in Splits : <<BaseDir("videos", s), c>> \in dirs

\* C19: the flipped names of the source videos of a split are all different:
\* after a flip run that completed into a counterpart class whose videos
\* directories held no video, the counterpart class has in every split as many
\* videos as the source class.
C19_OneFlippedVideoPerSource ==
    [][(/\ last'.op = "flip_videos"
        /\ last'.status = "ok"
        /\ \A s \in Splits : VideoList(files, s, last'.cls2) = {})
       => \A s \in Splits :
             Cardinality(VideoList(files', s, last'.cls2))
                = Cardinality(VideoList(files, s, last'.cls))]_vars

\* C20, as amended: a flip run changes an annotation file of the counterpart
\* class's tags directories only as the annotation of a flipped video that was
\* missing from the counterpart class's videos directory before the run and
\* whose source video is in the copy-tags list of the split; every other
\* annotation file there is after the run as it was before.
C20_AnnotationsOfPresentVideosKept ==
    [][last'.op = "flip_videos"
       => \A x \in files :
             (x.base[1] = "tags" /\ x.cls = last'.cls2 /\ x \notin files')
             => \E v \in VideoList(files, x.base[2], last'.cls) :
                   /\ v \in last'.copy[x.base[2]]
                   /\ TagsFileName(FlippedName(v)) = x.name
                   /\ FlippedName(v) \notin VideoList(files, x.base[2], last'.cls2)]_vars

\* C20 witness: a run that was asked to copy the tags of a.mp4 left the edited
\* annotation of a_flipped.mp4 in place, the flipped video being there already.
C20_Witness ==
    /\ last.op = "flip_videos"
    /\ last.status = "ok"
    /\ last.cls = "left"
    /\ last.cls2 = "right"
    /\ A_MP4 \in last.copy["train"]
    /\ requests = 1
    /\ File(BaseDir("videos", "train"), "right", A_FLIPPED_MP4, VideoContent) \in files
    /\ last.writes = 0
    /\ EditedTags \in files

\* C20: a flip run overwrites no annotation file that exists in the counterpart
\* class's tags directories: every file there before the run is there after
\* it with the same content, for every source class, counterpart class (the
\* source class included) and copy-tags lists.
C20_AnnotationsNotOverwritten ==
    [][last'.op = "flip_videos"
       => \A x \in files :
             (x.base[1] = "tags" /\ x.cls = last'.cls2) => x \in files']_vars

====
